---------------------------- MODULE Spec2Model ----------------------------
(* Model of smtpdane-mtasts-lookup.py: the per-domain lookup pipeline       *)
(* (lookupmx, lookuptlsa, lookupsts, lookupdomain) and the batch loop of    *)
(* __main__.  Text (str and bytes) is a sequence of one-character strings.  *)
EXTENDS Integers, Sequences, FiniteSets, TLC

(***************************************************************************)
(* Bounds of the model                                                     *)
(***************************************************************************)
\* longest list of input domains on the command line
MaxDomains == 3
\* most MX records in one answer to a query for the unconstrained domain
MaxMx == 3
\* most TXT records in one answer to a query for the unconstrained domain
MaxTxt == 2

(***************************************************************************)
(* Text                                                                    *)
(***************************************************************************)
\* The characters of the model in code point order (what str comparison uses).
Ascii ==
  <<" ",",","-",".","0","1","2","3","4","5","6","7","8","9",":",";","=","A","B","C","D","E","F","G","H","I","J","K","L","M","N","O","P","Q","R","S","T","U","V","W","X","Y","Z","_","a","b","c","d","e","f","g","h","i","j","k","l","m","n","o","p","q","r","s","t","u","v","w","x","y","z">>

\* A byte that is part of no UTF-8 encoding.
BadByte == "0xFF"

Upper == <<"A","B","C","D","E","F","G","H","I","J","K","L","M","N","O","P","Q","R","S","T","U","V","W","X","Y","Z">>
Lower == <<"a","b","c","d","e","f","g","h","i","j","k","l","m","n","o","p","q","r","s","t","u","v","w","x","y","z">>

CharOrd(c) == CHOOSE k \in 1..Len(Ascii) : Ascii[k] = c

\* str.lower() on one character
LowerChar(c) ==
  IF \E k \in 1..Len(Upper) : Upper[k] = c
  THEN Lower[CHOOSE k \in 1..Len(Upper) : Upper[k] = c]
  ELSE c

\* str.lower()
LowerText(t) == [k \in 1..Len(t) |-> LowerChar(t[k])]

\* a < b on str: the first differing character decides, a proper prefix is less
TextLess(a, b) ==
  \/ /\ Len(a) < Len(b)
     /\ \A k \in 1..Len(a) : a[k] = b[k]
  \/ \E k \in 1..Len(a) :
       /\ k <= Len(b)
       /\ \A j \in 1..(k - 1) : a[j] = b[j]
       /\ a[k] # b[k]
       /\ CharOrd(a[k]) < CharOrd(b[k])

\* str.startswith
StartsWith(t, prefix) ==
  /\ Len(t) >= Len(prefix)
  /\ SubSeq(t, 1, Len(prefix)) = prefix

RECURSIVE Join(_, _)
\* delimiter.join(texts)
Join(delimiter, texts) ==
  IF Len(texts) = 0 THEN <<>>
  ELSE IF Len(texts) = 1 THEN texts[1]
  ELSE texts[1] \o delimiter \o Join(delimiter, Tail(texts))

RECURSIVE Concat(_)
\* b''.join(strings)
Concat(strings) ==
  IF Len(strings) = 0 THEN <<>> ELSE strings[1] \o Concat(Tail(strings))

\* the sequences over S of length 1..n in which no element occurs twice
RECURSIVE Arrangements(_, _)
Arrangements(S, n) ==
  IF n = 0 THEN {}
  ELSE LET shorter == Arrangements(S, n - 1)
           longer  == {Append(s, x) : s \in shorter, x \in S}
       IN  {<<x>> : x \in S}
             \cup shorter
             \cup {s \in longer : \A a, b \in 1..Len(s) : a # b => s[a] # s[b]}

(***************************************************************************)
(* Python values                                                           *)
(***************************************************************************)
\* bool is a subclass of int: True is 1 and False is 0
PyBool(b) == IF b THEN 1 ELSE 0

\* x and y: x when x is falsy, else y
PyAnd(x, y) == IF x = 0 THEN x ELSE y

\* x or y: x when x is truthy, else y
PyOr(x, y) == IF x # 0 THEN x ELSE y

\* indicator(b): bool encoded as int
indicator(b) == IF b # 0 THEN 1 ELSE 0

(***************************************************************************)
(* The resolver: what resolver.resolve(qname, rdtype) can do                *)
(***************************************************************************)
\* the exception classes every lookup catches
BenignKinds == {"NoAnswer", "NXDOMAIN", "NoNameservers", "LifetimeTimeout"}

\* dns.flags.AD
AD == 32

\* response flags QR|RD|RA, without and with AD
ResponseFlags == {33152, 33184}

\* flags & AD != 0
HasAD(flags) == (flags \div AD) % 2 = 1

NoRecords == <<>>

Answer(flags, records) == [kind |-> "answer", flags |-> flags, records |-> records]
Failure(kind) == [kind |-> kind, flags |-> 0, records |-> NoRecords]

\* str(e) of the caught exceptions
ExcStr(kind, qname, rdtype) ==
  CASE kind = "NoAnswer" ->
         <<"T","h","e"," ","D","N","S"," ","r","e","s","p","o","n","s","e"," ","d","o","e","s"," ","n","o","t"," ","c","o","n","t","a","i","n"," ","a","n"," ","a","n","s","w","e","r"," ","t","o"," ","t","h","e"," ","q","u","e","s","t","i","o","n",":"," ">>
           \o qname \o <<" ","I","N"," ">> \o rdtype
    [] kind = "NXDOMAIN" ->
         <<"T","h","e"," ","D","N","S"," ","q","u","e","r","y"," ","n","a","m","e"," ","d","o","e","s"," ","n","o","t"," ","e","x","i","s","t",":"," ">> \o qname
    [] kind = "NoNameservers" ->
         <<"A","l","l"," ","n","a","m","e","s","e","r","v","e","r","s"," ","f","a","i","l","e","d"," ","t","o"," ","a","n","s","w","e","r"," ","t","h","e"," ","q","u","e","r","y"," ">>
           \o qname \o <<" ","I","N"," ">> \o rdtype
    [] kind = "LifetimeTimeout" ->
         <<"T","h","e"," ","r","e","s","o","l","u","t","i","o","n"," ","l","i","f","e","t","i","m","e"," ","e","x","p","i","r","e","d">>
    [] OTHER ->
         <<"D","N","S"," ","e","r","r","o","r">>

\* The input domains.  AnyDomain is unconstrained: every answer within the
\* bounds is possible for it.  The other two have fixed zone data and fail
\* only transiently.
AnyDomain  == <<"a","n","y",".","e","x","a","m","p","l","e">>
ExampleCom == <<"e","x","a","m","p","l","e",".","c","o","m">>
NoMxDomain == <<"n","o","m","x",".","e","x","a","m","p","l","e">>

FixedDomains == {ExampleCom, NoMxDomain}

\* exchange names as they appear in MX records
NullMx      == <<".">>
ZeroMx      == <<"0",".","0",".","0",".","0",".">>
LocalhostMx == <<"L","o","c","a","l","H","o","s","t",".">>
MxA         == <<"a",".","m","x",".">>
MxB         == <<"B",".","m","x",".">>

Mx(preference, exchange) == [preference |-> preference, exchange |-> exchange]

\* the MX records that answers for the unconstrained domain are made of
MxRecords ==
  {Mx(5, NullMx), Mx(10, ZeroMx), Mx(5, LocalhostMx),
   Mx(5, MxA), Mx(10, MxA), Mx(5, MxB), Mx(10, MxB)}

TransientKinds == {"LifetimeTimeout", "Other"}
AllKinds       == BenignKinds \cup {"Other"}

MxOutcomes(domain) ==
  IF domain = AnyDomain
  THEN {Answer(f, rr) : f \in ResponseFlags, rr \in Arrangements(MxRecords, MaxMx)}
         \cup {Failure(k) : k \in AllKinds}
  ELSE (IF domain = ExampleCom
        THEN {Answer(33184, <<Mx(5, MxA)>>)}
        ELSE {Failure("NoAnswer")})
         \cup {Failure(k) : k \in TransientKinds}

(***************************************************************************)
(* validmx, lookupmx                                                       *)
(***************************************************************************)
validmx(mx) == mx \notin {<<".">>, <<"0",".","0",".","0",".","0",".">>, <<"l","o","c","a","l","h","o","s","t",".">>}

RECURSIVE FilterValid(_)
\* list(filter(validmx, mxsunfiltered))
FilterValid(s) ==
  IF Len(s) = 0 THEN <<>>
  ELSE (IF validmx(s[1]) THEN <<s[1]>> ELSE <<>>) \o FilterValid(Tail(s))

\* key=lambda r: r.exchange.to_unicode().lower()
NameKeyLess(r, s) == TextLess(LowerText(r.exchange), LowerText(s.exchange))

\* key=lambda r: r.preference
PreferenceKeyLess(r, s) == r.preference < s.preference

RECURSIVE InsertByName(_, _)
\* x placed in the list s, sorted by name, behind every element not greater
InsertByName(x, s) ==
  IF Len(s) = 0 THEN <<x>>
  ELSE IF NameKeyLess(x, s[1]) THEN <<x>> \o s
  ELSE <<s[1]>> \o InsertByName(x, Tail(s))

RECURSIVE SortByName(_)
\* sorted(answer, key=name): stable, equal keys keep their order
SortByName(s) ==
  IF Len(s) = 0 THEN <<>>
  ELSE InsertByName(s[Len(s)], SortByName(SubSeq(s, 1, Len(s) - 1)))

RECURSIVE InsertByPreference(_, _)
\* x placed in the list s, sorted by preference, behind every element not greater
InsertByPreference(x, s) ==
  IF Len(s) = 0 THEN <<x>>
  ELSE IF PreferenceKeyLess(x, s[1]) THEN <<x>> \o s
  ELSE <<s[1]>> \o InsertByPreference(x, Tail(s))

RECURSIVE SortByPreference(_)
\* sorted(records, key=preference): stable, equal keys keep their order
SortByPreference(s) ==
  IF Len(s) = 0 THEN <<>>
  ELSE InsertByPreference(s[Len(s)], SortByPreference(SubSeq(s, 1, Len(s) - 1)))

\* variant: the two sorts in the other order
SortRecordsSwapped(answer) == SortByName(SortByPreference(answer))

\* the two sorted() calls: by name first, then by preference
SortRecords(answer) == SortByPreference(SortByName(answer))

\* variant: the error only when the answer itself is empty
MxErrorOnNoAnswer(mxs, mxsunfiltered) ==
  IF Len(mxsunfiltered) = 0
  THEN <<"n","o"," ","v","a","l","i","d"," ","M","X",":"," ">> \o Join(<<","," ">>, mxsunfiltered)
  ELSE <<>>

\* if len(mxs) == 0: error = "no valid MX: " + ", ".join(mxsunfiltered)
MxError(mxs, mxsunfiltered) ==
  IF Len(mxs) = 0
  THEN <<"n","o"," ","v","a","l","i","d"," ","M","X",":"," ">> \o Join(<<","," ">>, mxsunfiltered)
  ELSE <<>>

\* lookupmx for a resolver outcome that is an answer or a caught exception
lookupmx(o, domain) ==
  IF o.kind = "answer"
  THEN LET records       == SortRecords(o.records)
           mxsunfiltered == [k \in 1..Len(records) |-> LowerText(records[k].exchange)]
           mxs           == FilterValid(mxsunfiltered)
       IN  [mxs |-> mxs,
            authenticated |-> PyBool(HasAD(o.flags)),
            error |-> MxError(mxs, mxsunfiltered)]
  ELSE [mxs |-> <<>>,
        authenticated |-> PyBool(FALSE),
        error |-> ExcStr(o.kind, domain, <<"M","X">>)]


(***************************************************************************)
(* lookuptlsa                                                              *)
(***************************************************************************)
\* the fixed SMTP port passed by lookupdomain
SmtpPort == 25

\* f"{port}" for the port of the model
PortText(port) == IF port = 25 THEN <<"2","5">> ELSE <<"0">>

\* f"_{port}._tcp.{domain}"
TlsaQName(domain, port) == <<"_">> \o PortText(port) \o <<".","_","t","c","p",".">> \o domain

\* the owner names that may hold TLSA records
TlsaOwners == {TlsaQName(LowerText(MxA), SmtpPort), TlsaQName(LowerText(MxB), SmtpPort)}

\* str(r) of the TLSA records at qname
TlsaRecords(qname) ==
  IF qname = TlsaQName(LowerText(MxA), SmtpPort)
  THEN <<<<"3"," ","1"," ","1"," ","a","b">>>>
  ELSE <<<<"3"," ","1"," ","1"," ","c","d">>, <<"2"," ","0"," ","1"," ","e","f">>>>

\* zone is the set of owner names that hold TLSA records
TlsaOutcomes(qname, zone) ==
  (IF qname \in zone
   THEN {Answer(33184, TlsaRecords(qname))}
   ELSE {Failure("NoAnswer"), Failure("NXDOMAIN")})
    \cup {Failure(k) : k \in {"NoNameservers", "LifetimeTimeout", "Other"}}

\* lookuptlsa for a resolver outcome that is an answer or a caught exception
lookuptlsa(o, domain, port, delimiter) ==
  IF o.kind = "answer"
  THEN [flag |-> 1, details |-> Join(delimiter, o.records)]
  ELSE [flag |-> 0, details |-> ExcStr(o.kind, TlsaQName(domain, port), <<"T","L","S","A">>)]

(***************************************************************************)
(* is_sts, lookupsts                                                       *)
(***************************************************************************)
\* "_mta-sts." + domain
StsQName(domain) == <<"_","m","t","a","-","s","t","s",".">> \o domain

\* TXT records (r.strings) that answers for the unconstrained domain hold
TxtSplit      == <<<<"v","=","S","T">>, <<"S","v","1",";"," ","i","d","=","1">>, <<>>>>
TxtUpper      == <<<<"V","=","S","T","S","V","1">>>>
TxtSpf        == <<<<"v","=","s","p","f","1"," ","-","a","l","l">>>>
TxtNotAtStart == <<<<" ","v","=","S","T","S","v","1">>>>
TxtBadUtf8    == <<<<"v","=","S","T","S","v","1">>, <<BadByte>>>>

TxtRecordPool == {TxtSplit, TxtUpper, TxtSpf, TxtNotAtStart, TxtBadUtf8}

TxtOutcomes(qname) ==
  IF qname = StsQName(AnyDomain)
  THEN {Answer(33152, rr) : rr \in Arrangements(TxtRecordPool, MaxTxt)}
         \cup {Failure(k) : k \in AllKinds}
  ELSE (IF qname = StsQName(ExampleCom)
        THEN {Answer(33184, <<<<<<"v","=","S","T","S","v","1",";"," ","i","d","=","7">>>>>>)}
        ELSE {Failure("NXDOMAIN")})
         \cup {Failure(k) : k \in TransientKinds}

\* bytes.decode() raises UnicodeDecodeError on a byte sequence that is not UTF-8
Decodable(bytes) == \A k \in 1..Len(bytes) : bytes[k] # BadByte

\* variant: without lower()
is_sts_case_sensitive(txt) == StartsWith(txt, <<"v","=","s","t","s","v","1">>)

\* txt.lower().startswith('v=stsv1')
is_sts(txt) == StartsWith(LowerText(txt), <<"v","=","s","t","s","v","1">>)

RECURSIVE FilterSts(_)
\* [ t for t in txts if is_sts(t) ]
FilterSts(txts) ==
  IF Len(txts) = 0 THEN <<>>
  ELSE (IF is_sts(txts[1]) THEN <<txts[1]>> ELSE <<>>) \o FilterSts(Tail(txts))

\* lookupsts for a resolver outcome that is an answer or a caught exception;
\* raises is the exception that leaves the function, "none" when it returns
lookupsts(o, domain, delimiter) ==
  IF o.kind = "answer"
  THEN LET joined == [k \in 1..Len(o.records) |-> Concat(o.records[k])]
       IN  IF \E k \in 1..Len(joined) : ~Decodable(joined[k])
           THEN [raises |-> "UnicodeDecodeError", flag |-> 0, details |-> <<>>]
           ELSE LET txts == FilterSts(joined)
                IN  [raises |-> "none",
                     flag |-> indicator(Len(txts)),
                     details |-> Join(delimiter, txts)]
  ELSE [raises |-> "none", flag |-> 0,
        details |-> ExcStr(o.kind, StsQName(domain), <<"T","X","T">>)]

(***************************************************************************)
(* lookupdomain and the batch loop                                         *)
(***************************************************************************)
\* opts.delimiter: the default '\\n' after unicode_escape
Delimiter == <<"\n">>

\* variant: or in place of and
DaneFlagEither(a, f) == indicator(PyOr(a, f))

\* daneflag = indicator(mxauth and mxtlsaflag)
DaneFlag(a, f) == indicator(PyAnd(a, f))

\* variant: daneflag left out
AnyFlagStsOnly(d, s) == indicator(s)

\* indicator(daneflag or stsflag)
AnyFlag(d, s) == indicator(PyOr(d, s))

\* variant: the least preferred exchange
TlsaTargetLast(m) == m[Len(m)]

\* the exchange lookuptlsa is called with: mxs[0]
TlsaTarget(m) == m[1]

\* variant: except Exception
CaughtWithOther == BenignKinds \cup {"Other"}

\* the except clause of lookupmx, lookuptlsa and lookupsts
Caught == BenignKinds

\* an exception nothing catches: traceback and a non-zero exit status
ExitUncaught == "error"

\* variant: no except KeyboardInterrupt
ExitAfterInterruptUncaught == "error"

\* except KeyboardInterrupt: pass -- the script then ends normally
ExitAfterInterrupt == "ok"

VARIABLES
  domains,        \* opts.domains
  header,         \* opts.header
  tlsaZone,       \* DNS: the owner names holding TLSA records
  pc,             \* where the program is: "start", "loop", "mx", "tlsa", "sts", "print", "exit"
  i,              \* index (from 1) of the domain the loop is at, 0 before the first
  mxs, mxauth, mxerror, mxdetails, mxtlsaflag, mxtlsadetails,
  daneflag, stsflag, stsdetails,    \* the locals of lookupdomain
  out,            \* the records printed to stdout, in order
  headerOut,      \* whether the CSV header line has been printed
  queries,        \* every query passed to resolver.resolve, in order
  response,       \* what the latest resolver.resolve call did
  raised,         \* the exception that ended the loop, "none" if there is none
  exit            \* "running", or how the process ended: "ok" or "error"

locals == <<mxs, mxauth, mxerror, mxdetails, mxtlsaflag, mxtlsadetails,
            daneflag, stsflag, stsdetails>>
inputs == <<domains, header, tlsaZone>>
vars == <<inputs, pc, i, locals, out, headerOut, queries, response, raised, exit>>

NoResponse == Failure("none")

\* the sequences over S of length 0..n
RECURSIVE Lists(_, _)
Lists(S, n) ==
  IF n = 0 THEN {<<>>}
  ELSE LET shorter == Lists(S, n - 1)
       IN  shorter \cup {Append(s, x) : s \in shorter, x \in S}

\* the command lines of the model: the unconstrained domain alone, or up to
\* MaxDomains of the domains with fixed zone data
DomainLists == {<<AnyDomain>>} \cup Lists(FixedDomains, MaxDomains)

Init ==
  /\ domains \in DomainLists
  /\ header \in BOOLEAN
  /\ tlsaZone \in SUBSET TlsaOwners
  /\ pc = "start"
  /\ i = 0
  /\ mxs = <<>> /\ mxauth = 0 /\ mxerror = <<>> /\ mxdetails = <<>>
  /\ mxtlsaflag = 0 /\ mxtlsadetails = <<>>
  /\ daneflag = 0 /\ stsflag = 0 /\ stsdetails = <<>>
  /\ out = <<>>
  /\ headerOut = FALSE
  /\ queries = <<>>
  /\ response = NoResponse
  /\ raised = "none"
  /\ exit = "running"

Query(qname, rdtype) == [dom |-> i, qname |-> qname, rdtype |-> rdtype]

\* an exception leaves lookupdomain and the loop; nothing catches it
Propagate(kind) ==
  /\ pc' = "exit"
  /\ raised' = kind
  /\ exit' = ExitUncaught

\* if opts.header: print(...)
Header ==
  /\ pc = "start"
  /\ headerOut' = header
  /\ pc' = "loop"
  /\ UNCHANGED <<inputs, i, locals, out, queries, response, raised, exit>>

\* for domain in opts.domains: the next call of lookupdomain, or the end
NextDomain ==
  /\ pc = "loop"
  /\ IF i < Len(domains)
     THEN /\ i' = i + 1
          /\ pc' = "mx"
          /\ exit' = exit
     ELSE /\ i' = i
          /\ pc' = "exit"
          /\ exit' = "ok"
  /\ mxs' = <<>> /\ mxauth' = 0 /\ mxerror' = <<>> /\ mxdetails' = <<>>
  /\ mxtlsaflag' = 0 /\ mxtlsadetails' = <<>>
  /\ daneflag' = 0 /\ stsflag' = 0 /\ stsdetails' = <<>>
  /\ response' = NoResponse
  /\ UNCHANGED <<inputs, out, headerOut, queries, raised>>

\* lookupmx(resolver, domain), then lines 115-129 up to the next query
LookupMx ==
  /\ pc = "mx"
  /\ \E o \in MxOutcomes(domains[i]) :
       /\ queries' = Append(queries, Query(domains[i], "MX"))
       /\ response' = o
       /\ IF o.kind \notin Caught \cup {"answer"}
          THEN /\ Propagate(o.kind)
               /\ UNCHANGED locals
          ELSE LET r == lookupmx(o, domains[i])
               IN  /\ mxs' = r.mxs
                   /\ mxauth' = r.authenticated
                   /\ mxerror' = r.error
                   /\ IF Len(r.mxs) > 0
                      THEN /\ mxdetails' = Join(Delimiter, r.mxs)
                           /\ pc' = "tlsa"
                           /\ UNCHANGED <<mxtlsaflag, mxtlsadetails, daneflag>>
                      ELSE /\ mxdetails' = r.error
                           /\ mxtlsaflag' = 0
                           /\ mxtlsadetails' = <<>>
                           /\ daneflag' = DaneFlag(r.authenticated, 0)
                           /\ pc' = "sts"
                   /\ UNCHANGED <<stsflag, stsdetails, raised, exit>>
  /\ UNCHANGED <<inputs, i, out, headerOut>>

\* lookuptlsa(resolver, mxs[0], 25, delimiter), then line 129
LookupTlsa ==
  /\ pc = "tlsa"
  /\ LET qname == TlsaQName(TlsaTarget(mxs), SmtpPort)
     IN  \E o \in TlsaOutcomes(qname, tlsaZone) :
           /\ queries' = Append(queries, Query(qname, "TLSA"))
           /\ response' = o
           /\ IF o.kind \notin Caught \cup {"answer"}
              THEN /\ Propagate(o.kind)
                   /\ UNCHANGED <<mxtlsaflag, mxtlsadetails, daneflag>>
              ELSE LET r == lookuptlsa(o, TlsaTarget(mxs), SmtpPort, Delimiter)
                   IN  /\ mxtlsaflag' = r.flag
                       /\ mxtlsadetails' = r.details
                       /\ daneflag' = DaneFlag(mxauth, r.flag)
                       /\ pc' = "sts"
                       /\ UNCHANGED <<raised, exit>>
  /\ UNCHANGED <<inputs, i, mxs, mxauth, mxerror, mxdetails, stsflag, stsdetails,
                 out, headerOut>>

\* lookupsts(resolver, domain, delimiter)
LookupSts ==
  /\ pc = "sts"
  /\ LET qname == StsQName(domains[i])
     IN  \E o \in TxtOutcomes(qname) :
           /\ queries' = Append(queries, Query(qname, "TXT"))
           /\ response' = o
           /\ IF o.kind \notin Caught \cup {"answer"}
              THEN /\ Propagate(o.kind)
                   /\ UNCHANGED <<stsflag, stsdetails>>
              ELSE LET r == lookupsts(o, domains[i], Delimiter)
                   IN  IF r.raises # "none"
                       THEN /\ Propagate(r.raises)
                            /\ UNCHANGED <<stsflag, stsdetails>>
                       ELSE /\ stsflag' = r.flag
                            /\ stsdetails' = r.details
                            /\ pc' = "print"
                            /\ UNCHANGED <<raised, exit>>
  /\ UNCHANGED <<inputs, i, mxs, mxauth, mxerror, mxdetails, mxtlsaflag,
                 mxtlsadetails, daneflag, out, headerOut>>

\* the fields of the CSV line that line 131 prints
Record ==
  [domain         |-> domains[i],
   has_mx         |-> indicator(Len(mxs)),
   has_mxauth     |-> indicator(mxauth),
   has_mxtlsa     |-> mxtlsaflag,
   has_smtpdane   |-> daneflag,
   has_mtasts     |-> stsflag,
   has_any        |-> AnyFlag(daneflag, stsflag),
   mx_details     |-> mxdetails,
   mxtlsa_details |-> mxtlsadetails,
   mtasts_details |-> stsdetails]

\* print(..., flush=True), and the return to the loop
PrintRecord ==
  /\ pc = "print"
  /\ out' = Append(out, Record)
  /\ pc' = "loop"
  /\ UNCHANGED <<inputs, i, locals, headerOut, queries, response, raised, exit>>

\* SIGINT while the try block runs: KeyboardInterrupt is raised where the
\* program is, and the except clause of __main__ catches it
Interrupt ==
  /\ pc \in {"start", "loop", "mx", "tlsa", "sts", "print"}
  /\ pc' = "exit"
  /\ raised' = "KeyboardInterrupt"
  /\ exit' = ExitAfterInterrupt
  /\ UNCHANGED <<inputs, i, locals, out, headerOut, queries, response>>

Next ==
  \/ Header
  \/ NextDomain
  \/ LookupMx
  \/ LookupTlsa
  \/ LookupSts
  \/ PrintRecord
  \/ Interrupt

Spec == Init /\ [][Next]_vars

(***************************************************************************)
(* Properties                                                              *)
(***************************************************************************)
\* the positions of the records printed so far
Emitted == 1..Len(out)

\* lookupdomain has just printed the record of domain i and returned
JustPrinted == pc = "loop" /\ i >= 1 /\ Len(out) = i

\* lookupmx has returned for domain i and no later query has been made
AfterMx ==
  /\ pc \in {"tlsa", "sts"}
  /\ queries # <<>>
  /\ queries[Len(queries)].rdtype = "MX"

\* the queries made for the domain at position d
QueriesOf(d) == {k \in 1..Len(queries) : queries[k].dom = d}

\* sub occurs in text
Contains(text, sub) ==
  \E k \in 0..(Len(text) - Len(sub)) : SubSeq(text, k + 1, k + Len(sub)) = sub

\* C1: when no query fails with anything but a benign kind (and nobody
\* interrupts), the finished run has printed exactly one record per input
\* domain, in input order.
C1_OneRecordPerDomain ==
  (pc = "exit" /\ raised \notin {"Other", "KeyboardInterrupt"}) =>
    /\ Len(out) = Len(domains)
    /\ \A k \in Emitted : out[k].domain = domains[k]

\* C2: in every printed record has_smtpdane is 1 exactly when has_mxauth and
\* has_mxtlsa are both 1, and 0 otherwise.
C2_DaneIffAuthAndTlsa ==
  \A k \in Emitted :
    /\ out[k].has_smtpdane \in {0, 1}
    /\ out[k].has_smtpdane = 1 <=>
         (out[k].has_mxauth = 1 /\ out[k].has_mxtlsa = 1)

C2_Witness ==
  \E k \in Emitted :
    /\ out[k].has_mxauth = 0
    /\ out[k].has_mxtlsa = 1
    /\ out[k].has_smtpdane = 0

\* C3: in every printed record has_any is the logical OR of has_smtpdane and
\* has_mtasts; it is 0 exactly when both are 0.
C3_AnyIsDaneOrSts ==
  \A k \in Emitted :
    /\ out[k].has_any \in {0, 1}
    /\ out[k].has_any = 0 <=>
         (out[k].has_smtpdane = 0 /\ out[k].has_mtasts = 0)

C3_Witness ==
  \E k \in Emitted :
    /\ out[k].has_smtpdane = 1
    /\ out[k].has_mtasts = 0
    /\ out[k].has_any = 1

\* C4: a record of a domain without a valid exchange has has_mxtlsa = 0 and
\* carries the MX error text of mx_details in mxtlsa_details too.
C4_TlsaDetailsReuseMxError ==
  \A k \in Emitted :
    out[k].has_mx = 0 =>
      /\ out[k].has_mxtlsa = 0
      /\ out[k].mxtlsa_details = out[k].mx_details

\* the error texts of a domain without any MX answer
NoMxTexts(domain) == {ExcStr(kind, domain, <<"M","X">>) : kind \in BenignKinds}

\* C5: when lookupmx returns, its error text is non-empty exactly when its
\* list of valid exchanges is empty; and the error text of an answer emptied
\* by filtering names every rejected exchange and is none of the texts of a
\* domain without an MX answer.
C5_ErrorIffNoValidMx ==
  AfterMx =>
    /\ (mxerror # <<>>) <=> (mxs = <<>>)
    /\ (response.kind = "answer" /\ mxs = <<>>) =>
         /\ \A k \in 1..Len(response.records) :
              Contains(mxerror, LowerText(response.records[k].exchange))
         /\ mxerror \notin NoMxTexts(domains[i])

C5_Witness ==
  /\ AfterMx
  /\ response.kind = "answer"
  /\ Len(response.records) = 2
  /\ mxs = <<>>
  /\ mxerror # <<>>

\* the names lookupmx must reject
RejectedNames == {<<".">>, <<"0",".","0",".","0",".","0",".">>, <<"l","o","c","a","l","h","o","s","t",".">>}

\* r comes before q: lower preference first, then the lowercased name
Before(r, q) ==
  \/ r.preference < q.preference
  \/ /\ r.preference = q.preference
     /\ TextLess(LowerText(r.exchange), LowerText(q.exchange))

RECURSIVE InOrder(_)
\* the records of the set S, the first of those left taken again and again
InOrder(S) ==
  IF S = {} THEN <<>>
  ELSE LET first == CHOOSE r \in S : \A q \in S \ {r} : Before(r, q)
       IN  <<LowerText(first.exchange)>> \o InOrder(S \ {first})

\* the reference result: the rejected names are removed first, what is left
\* is ordered
ReferenceMx(records) ==
  InOrder({records[k] : k \in {j \in 1..Len(records) :
             LowerText(records[j].exchange) \notin RejectedNames}})

\* C6: for every successful MX answer the list of valid exchanges is the
\* reference result: lowercased names by ascending preference, then by
\* ascending name, without exactly the three rejected names.
C6_ValidMxIsReference ==
  (AfterMx /\ response.kind = "answer") => mxs = ReferenceMx(response.records)

C6_Witness ==
  /\ AfterMx
  /\ response.kind = "answer"
  /\ Len(response.records) = 3
  /\ Len(mxs) = 2
  /\ mxs[1] # mxs[2]
  /\ LowerText(response.records[2].exchange) \in RejectedNames
  /\ response.records[1].preference > response.records[3].preference

\* a TXT record qualifies: its first seven characters are v=stsv1 in any case
Qualifies(txt) ==
  /\ Len(txt) >= 7
  /\ \A k \in 1..7 : LowerChar(txt[k]) = <<"v","=","s","t","s","v","1">>[k]

\* the concatenated TXT records of a response
TxtOf(resp) == [k \in 1..Len(resp.records) |-> Concat(resp.records[k])]

\* C7: after every MX outcome lookupdomain goes on to the TXT query: at once
\* when there is no valid exchange, after the TLSA query otherwise (unless
\* an exception or an interrupt ends the run first).  Every printed record
\* was preceded by exactly one TXT query, for _mta-sts.<domain>; has_mtasts
\* is 1 exactly when that query succeeded and a returned record qualifies,
\* and mtasts_details is the qualifying records joined, or the error text:
\* neither depends on the MX or TLSA outcome.
C7_StsFromTxtAlone ==
  /\ (AfterMx /\ mxs = <<>>) => pc = "sts"
  /\ (AfterMx /\ mxs # <<>>) => pc = "tlsa"
  /\ (queries # <<>> /\ queries[Len(queries)].rdtype = "TLSA" /\ pc # "exit") =>
       pc = "sts"
  /\ JustPrinted =>
       LET last == queries[Len(queries)]
           sts  == {k \in QueriesOf(i) : queries[k].rdtype = "TXT"}
       IN  /\ Cardinality(sts) = 1
           /\ last = [dom |-> i, qname |-> <<"_","m","t","a","-","s","t","s",".">> \o domains[i], rdtype |-> "TXT"]
           /\ out[i].has_mtasts = 1 <=>
                /\ response.kind = "answer"
                /\ \E k \in 1..Len(response.records) : Qualifies(TxtOf(response)[k])
           /\ out[i].has_mtasts \in {0, 1}
           /\ out[i].mtasts_details =
                IF response.kind = "answer"
                THEN Join(Delimiter, SelectSeq(TxtOf(response), Qualifies))
                ELSE ExcStr(response.kind, <<"_","m","t","a","-","s","t","s",".">> \o domains[i], <<"T","X","T">>)

C7_Witness ==
  /\ JustPrinted
  /\ out[i].has_mx = 0
  /\ Cardinality(QueriesOf(i)) = 2
  /\ out[i].has_mtasts = 1
  /\ Len(response.records) = 2
  /\ Len(response.records[1]) = 3

\* a printed record never changes and never disappears
OutOnlyGrows ==
  /\ Len(out') >= Len(out)
  /\ \A k \in Emitted : out'[k] = out[k]

\* C8: a resolver failure outside the caught kinds ends the run with an
\* error: the domain it hit has no record, no later domain has a query or a
\* record, and the records of the earlier domains stay as they were.
C8_FatalFailureAborts ==
  /\ [](/\ (response.kind \notin BenignKinds \cup {"answer", "none"}) =>
             raised = response.kind
        /\ raised = "Other" =>
             /\ pc = "exit"
             /\ exit = "error"
             /\ Len(out) = i - 1
             /\ \A k \in Emitted : out[k].domain = domains[k]
             /\ \A k \in 1..Len(queries) : queries[k].dom <= i)
  /\ [][/\ OutOnlyGrows
        /\ raised = "Other" => UNCHANGED <<out, queries>>]_vars

C8_Witness ==
  /\ raised = "Other"
  /\ Len(domains) = 3
  /\ i = 2
  /\ Len(out) = 1
  /\ queries[Len(queries)].rdtype = "TLSA"

\* the fields of a complete record
Fields ==
  {"domain", "has_mx", "has_mxauth", "has_mxtlsa", "has_smtpdane", "has_mtasts",
   "has_any", "mx_details", "mxtlsa_details", "mtasts_details"}

\* C9: an interrupt anywhere in the loop ends the process without an error;
\* the output holds complete records only, one for each domain evaluated to
\* the end, and no query or record follows.
C9_InterruptStopsOrderly ==
  /\ [](raised = "KeyboardInterrupt" =>
          /\ pc = "exit"
          /\ exit = "ok"
          /\ Len(out) \in {i - 1, i}
          /\ \A k \in Emitted :
               /\ DOMAIN out[k] = Fields
               /\ out[k].domain = domains[k]
          /\ \A k \in 1..Len(queries) : queries[k].dom <= i)
  /\ [][/\ OutOnlyGrows
        /\ raised = "KeyboardInterrupt" => UNCHANGED <<out, queries>>]_vars

C9_Witness ==
  /\ raised = "KeyboardInterrupt"
  /\ exit = "ok"
  /\ i = 2
  /\ Len(out) = 1
  /\ queries[Len(queries)].rdtype = "MX"
  /\ Len(domains) = 3

\* C10: a TLSA query directly follows the MX query of its domain, is the
\* only one of the domain, is made only with a valid exchange, and asks for
\* _25._tcp.<first valid exchange>; so has_mxtlsa = 1 implies has_mx = 1, and
\* has_mxtlsa is 0 when the first valid exchange has no TLSA record, whatever
\* the later exchanges publish.
C10_TlsaOfPreferredMxOnly ==
  /\ \A k \in 1..Len(queries) :
       queries[k].rdtype = "TLSA" =>
         /\ k > 1
         /\ queries[k - 1].rdtype = "MX"
         /\ queries[k - 1].dom = queries[k].dom
         /\ \A j \in QueriesOf(queries[k].dom) : queries[j].rdtype = "TLSA" => j = k
  /\ (pc \in {"sts", "print"} \/ JustPrinted) =>
       \A k \in QueriesOf(i) :
         queries[k].rdtype = "TLSA" =>
           /\ mxs # <<>>
           /\ queries[k].qname = <<"_","2","5",".","_","t","c","p",".">> \o mxs[1]
  /\ \A k \in Emitted : out[k].has_mxtlsa = 1 => out[k].has_mx = 1
  /\ (JustPrinted /\ mxs # <<>> /\ (<<"_","2","5",".","_","t","c","p",".">> \o mxs[1]) \notin tlsaZone) =>
       out[i].has_mxtlsa = 0

C10_Witness ==
  /\ JustPrinted
  /\ Len(mxs) = 2
  /\ (<<"_","2","5",".","_","t","c","p",".">> \o mxs[1]) \notin tlsaZone
  /\ (<<"_","2","5",".","_","t","c","p",".">> \o mxs[2]) \in tlsaZone
  /\ out[i].has_mx = 1
  /\ out[i].has_mxtlsa = 0

=============================================================================
